---- MODULE Spec2Model ----
(***************************************************************************)
(* Conway's Game of Life on a wrapped square grid: the Grid class of       *)
(* life.py.  A Grid holds `size` and the set `on_cells`; it is changed by  *)
(* turn_on, turn_off and update.  update is modelled one loop iteration at *)
(* a time, with the iteration order of its two `for` loops over sets left  *)
(* open.                                                                   *)
(***************************************************************************)
EXTENDS Integers, FiniteSets, Sequences, TLC

VARIABLES
    size,                   \* self.size
    on_cells,               \* self.on_cells
    pc,                     \* "idle" between calls, "survive" / "birth" in update()'s
                            \* two loops, "returned" when a call has just returned
    new_on_cells,           \* update(): local new_on_cells
    off_nbrs_of_on_cells,   \* update(): local off_nbrs_of_on_cells
    todo,                   \* update(): cells the running for loop has not visited yet
    op,                     \* observation: the last call that returned
    arg,                    \* observation: the cells that call was given
    pre,                    \* observation: on_cells when that call started
    ret,                    \* observation: the set that call returned
    seeded,                 \* driver: the pattern has been turned on
    seed,                   \* driver: the pattern it turned on
    gens,                   \* driver: update() calls that have returned since
    log,                    \* driver: the calls that have returned, in order
    dpc,                    \* display(): "out" when it is not running, else its position
    n_updates,              \* display(): parameter n_updates
    i_u,                    \* display(): iterations of its for loop that are over
    frames                  \* display(): what _display has shown, in order

vars == <<size, on_cells, pc, new_on_cells, off_nbrs_of_on_cells, todo,
          op, arg, pre, ret, seeded, seed, gens, log, dpc, n_updates, i_u, frames>>

-----------------------------------------------------------------------------
(* Bounds of the model. *)

\* Spec: grids of size 1 .. MaxSize, edited with any collections of their cells
MaxSize == 2
\* SpecLife: update() is called at most MaxGens times on a seeded pattern
MaxGens == 4
\* SpecLife: on grids of size 1 .. MaxSoupSize, every pattern of at most MaxSeed cells
\* that holds the corner cell (0, 0) and lies in the 3 x 3 square around it (which
\* wraps over both edges)
MaxSoupSize == 5
MaxSeed == 4
\* SpecLife: blocks on grids of size MinBlockSize .. MaxPatternSize and blinkers on
\* grids of size MinBlinkerSize .. MaxPatternSize, at every offset
MinBlockSize == 5
MinBlinkerSize == 6
MaxPatternSize == 6
\* SpecLife: on the grid of main(), patterns start at most MaxOff cells before or
\* after the grid's edge, or at the middle
MaxOff == 2

\* SpecTwice: the collections given to turn_on / turn_off are drawn from MaxEditCells
\* cells, one in range and the others out of range
MaxEditCells == 3

\* SpecAny: on grids of size 0 .. MaxSize, at most MaxAnySeed cells, in range or
\* not, are turned on, and update() is called at most MaxAnyUpdates times
MaxAnySeed == 3
MaxAnyUpdates == 2

\* SpecDisplay: display(n_updates) is called with n_updates in -1 .. MaxUpdates on
\* grids of size 1 .. MaxDisplaySize
MaxUpdates == 2
MaxDisplaySize == 3

\* main(): size = 200
GliderSize == 200

-----------------------------------------------------------------------------
(* The grid. *)

\* range(self.size) x range(self.size)
Cells(N) == (0 .. N - 1) \X (0 .. N - 1)

\* the subsets of T with at most k elements
RECURSIVE SubsetsUpTo(_, _)
SubsetsUpTo(T, k) ==
    IF k = 0 THEN {{}}
    ELSE LET smaller == SubsetsUpTo(T, k - 1)
         IN  smaller \cup {C \cup {x} : C \in smaller, x \in T}

\* the collections of in-range cells a caller passes to turn_on / turn_off
CellSets(N) == SUBSET Cells(N)

\* neighbours with the offsets not wrapped at the edges
neighbours_not_wrapped(cell, N) ==
    LET r == cell[1]
        c == cell[2]
    IN  { <<i_row, i_col>> : i_row \in {r - 1, r, r + 1},
                             i_col \in {c - 1, c, c + 1} }
        \ { <<r, c>> }

\* neighbours with the rows wrapped and the columns not
neighbours_rows_only(cell, N) ==
    LET r == cell[1]
        c == cell[2]
    IN  { <<i_row, i_col>> : i_row \in {(r - 1) % N, r, (r + 1) % N},
                             i_col \in {c - 1, c, c + 1} }
        \ { <<r, c>> }

\* neighbours with the offsets wrapped one cell too late
neighbours_wrong_modulus(cell, N) ==
    LET r == cell[1]
        c == cell[2]
    IN  { <<i_row, i_col>> : i_row \in {(r - 1) % (N + 1), r, (r + 1) % (N + 1)},
                             i_col \in {(c - 1) % (N + 1), c, (c + 1) % (N + 1)} }
        \ { <<r, c>> }

\* neighbours without `if (i_row, i_col) == (r, c): continue`
neighbours_with_itself(cell, N) ==
    LET r == cell[1]
        c == cell[2]
    IN  { <<i_row, i_col>> : i_row \in {(r - 1) % N, r, (r + 1) % N},
                             i_col \in {(c - 1) % N, c, (c + 1) % N} }

\* neighbours with nothing above row 0: the top edge does not wrap
neighbours_top_edge_closed(cell, N) ==
    LET r == cell[1]
        c == cell[2]
    IN  { <<i_row, i_col>> : i_row \in (IF r = 0 THEN {r, (r + 1) % N}
                                                 ELSE {(r - 1) % N, r, (r + 1) % N}),
                             i_col \in {(c - 1) % N, c, (c + 1) % N} }
        \ { <<r, c>> }

\* Grid.neighbours: only the -1 / +1 offsets are reduced modulo size
neighbours(cell, N) ==
    LET r == cell[1]
        c == cell[2]
    IN  { <<i_row, i_col>> : i_row \in {(r - 1) % N, r, (r + 1) % N},
                             i_col \in {(c - 1) % N, c, (c + 1) % N} }
        \ { <<r, c>> }

\* Grid.on_neighbours
on_neighbours(cell, S, N) == S \cap neighbours(cell, N)

\* stays_on with `len(on_nbrs) == 2`
stays_on_only_two(cell, S, N) == Cardinality(neighbours(cell, N) \cap S) = 2

\* stays_on with the cell counted among its own neighbours
stays_on_counting_itself(cell, S, N) ==
    Cardinality((neighbours(cell, N) \cup {cell}) \cap S) \in {2, 3}

\* update(), first loop: `len(on_nbrs) in (2, 3)`
stays_on(cell, S, N) == Cardinality(neighbours(cell, N) \cap S) \in {2, 3}

\* update(), first loop: `off_nbrs = nbrs.difference(on_nbrs)`
off_nbrs(cell, S, N) == neighbours(cell, N) \ (neighbours(cell, N) \cap S)

\* turns_on with the test of the first loop, `len(on_nbrs) in (2, 3)`
turns_on_like_stays_on(cell, S, N) == Cardinality(on_neighbours(cell, S, N)) \in {2, 3}

\* update(), second loop: `len(on_nbrs) == 3`
turns_on(cell, S, N) == Cardinality(on_neighbours(cell, S, N)) = 3

\* update() as a function of the grid it starts from
next_on_cells(S, N) ==
    LET survivors  == {cell \in S : stays_on(cell, S, N)}
        candidates == UNION {off_nbrs(cell, S, N) : cell \in S}
    IN  survivors \cup {cell \in candidates : turns_on(cell, S, N)}

-----------------------------------------------------------------------------
(* Operations. *)

\* __init__ with a cell on
init_grid_with_a_cell_on(N) ==
    /\ size = N
    /\ on_cells = {<<0, 0>>}
    /\ pc = "idle"
    /\ new_on_cells = {}
    /\ off_nbrs_of_on_cells = {}
    /\ todo = {}
    /\ op = "none"
    /\ arg = {}
    /\ pre = {}
    /\ ret = {}
    /\ seeded = FALSE
    /\ seed = {}
    /\ gens = 0
    /\ log = <<>>
    /\ dpc = "out"
    /\ n_updates = 0
    /\ i_u = 0
    /\ frames = <<>>

\* Grid.__init__ for a given size
init_grid(N) ==
    /\ size = N
    /\ on_cells = {}
    /\ pc = "idle"
    /\ new_on_cells = {}
    /\ off_nbrs_of_on_cells = {}
    /\ todo = {}
    /\ op = "none"
    /\ arg = {}
    /\ pre = {}
    /\ ret = {}
    /\ seeded = FALSE
    /\ seed = {}
    /\ gens = 0
    /\ log = <<>>
    /\ dpc = "out"
    /\ n_updates = 0
    /\ i_u = 0
    /\ frames = <<>>

\* what no Grid method touches while it is not inside update()
locals_unchanged == UNCHANGED <<new_on_cells, off_nbrs_of_on_cells, todo>>

\* display() is not running, and the driver keeps no log
no_display == UNCHANGED <<log, dpc, n_updates, i_u, frames>>

\* turn_on with `self.on_cells = set(cells)`
turn_on_replacing(cells) ==
    /\ pc = "idle"
    /\ on_cells' = cells
    /\ pc' = "returned"
    /\ op' = "turn_on"
    /\ arg' = cells
    /\ pre' = on_cells
    /\ ret' = {}
    /\ UNCHANGED size
    /\ locals_unchanged

\* turn_on reducing the coordinates it is given modulo size
turn_on_wrapping(cells) ==
    /\ pc = "idle"
    /\ on_cells' = on_cells \cup (IF size = 0 THEN cells
                                  ELSE {<<x[1] % size, x[2] % size>> : x \in cells})
    /\ pc' = "returned"
    /\ op' = "turn_on"
    /\ arg' = cells
    /\ pre' = on_cells
    /\ ret' = {}
    /\ UNCHANGED size
    /\ locals_unchanged

\* Grid.turn_on
turn_on(cells) ==
    /\ pc = "idle"
    /\ on_cells' = on_cells \cup cells
    /\ pc' = "returned"
    /\ op' = "turn_on"
    /\ arg' = cells
    /\ pre' = on_cells
    /\ ret' = {}
    /\ UNCHANGED size
    /\ locals_unchanged

\* turn_off with `symmetric_difference` for `difference`
turn_off_toggling(cells) ==
    /\ pc = "idle"
    /\ on_cells' = (on_cells \ cells) \cup (cells \ on_cells)
    /\ pc' = "returned"
    /\ op' = "turn_off"
    /\ arg' = cells
    /\ pre' = on_cells
    /\ ret' = {}
    /\ UNCHANGED size
    /\ locals_unchanged

\* Grid.turn_off
turn_off(cells) ==
    /\ pc = "idle"
    /\ on_cells' = on_cells \ cells
    /\ pc' = "returned"
    /\ op' = "turn_off"
    /\ arg' = cells
    /\ pre' = on_cells
    /\ ret' = {}
    /\ UNCHANGED size
    /\ locals_unchanged

\* a call of neighbours that returns only the neighbours that are on
call_neighbours_on_only(cell) ==
    /\ pc = "idle"
    /\ ret' = on_cells \cap neighbours(cell, size)
    /\ pc' = "returned"
    /\ op' = "neighbours"
    /\ arg' = {cell}
    /\ pre' = on_cells
    /\ UNCHANGED <<size, on_cells>>
    /\ locals_unchanged

\* a call of Grid.neighbours
call_neighbours(cell) ==
    /\ pc = "idle"
    /\ ret' = neighbours(cell, size)
    /\ pc' = "returned"
    /\ op' = "neighbours"
    /\ arg' = {cell}
    /\ pre' = on_cells
    /\ UNCHANGED <<size, on_cells>>
    /\ locals_unchanged

\* a call of Grid.on_neighbours
call_on_neighbours(cell) ==
    /\ pc = "idle"
    /\ ret' = on_neighbours(cell, on_cells, size)
    /\ pc' = "returned"
    /\ op' = "on_neighbours"
    /\ arg' = {cell}
    /\ pre' = on_cells
    /\ UNCHANGED <<size, on_cells>>
    /\ locals_unchanged

\* the caller takes the result and goes on to its next call
caller_resumes ==
    /\ pc = "returned"
    /\ pc' = "idle"
    /\ op' = "none"
    /\ arg' = {}
    /\ pre' = {}
    /\ ret' = {}
    /\ UNCHANGED <<size, on_cells>>
    /\ locals_unchanged

-----------------------------------------------------------------------------
(* Grid.update, one loop iteration at a time.  A Python set is iterated in  *)
(* an order the program does not control: an iteration may visit any       *)
(* unvisited cell.  The specifications let it visit the first or the last  *)
(* unvisited cell (in row-major order), so that every two cells are        *)
(* visited in both orders.                                                 *)

\* row-major order on cells
before(a, b) == a[1] < b[1] \/ (a[1] = b[1] /\ a[2] < b[2])

\* the cells of T the model lets a `for` loop visit next: the first and the last
next_in_loop(T) ==
    {x \in T : (\A y \in T : ~before(y, x)) \/ (\A y \in T : ~before(x, y))}

\* update(): the two sets are created, the first loop starts
update_begin ==
    /\ pc = "idle"
    /\ pc' = "survive"
    /\ new_on_cells' = {}
    /\ off_nbrs_of_on_cells' = {}
    /\ todo' = on_cells
    /\ op' = "update"
    /\ arg' = {}
    /\ pre' = on_cells
    /\ ret' = {}
    /\ UNCHANGED <<size, on_cells>>

\* the first loop updating self.on_cells in place
update_survive_in_place(cell) ==
    /\ pc = "survive"
    /\ cell \in todo
    /\ on_cells' = IF stays_on(cell, on_cells, size) THEN on_cells ELSE on_cells \ {cell}
    /\ new_on_cells' = IF stays_on(cell, on_cells, size)
                         THEN new_on_cells \cup {cell}
                         ELSE new_on_cells
    /\ off_nbrs_of_on_cells' = off_nbrs_of_on_cells \cup off_nbrs(cell, on_cells, size)
    /\ todo' = todo \ {cell}
    /\ UNCHANGED <<size, pc, op, arg, pre, ret>>

\* the first loop gathering the off neighbours of the cells that stay on only
update_survive_gathering_less(cell) ==
    /\ pc = "survive"
    /\ cell \in todo
    /\ new_on_cells' = IF stays_on(cell, on_cells, size)
                         THEN new_on_cells \cup {cell}
                         ELSE new_on_cells
    /\ off_nbrs_of_on_cells' = IF stays_on(cell, on_cells, size)
                                 THEN off_nbrs_of_on_cells \cup off_nbrs(cell, on_cells, size)
                                 ELSE off_nbrs_of_on_cells
    /\ todo' = todo \ {cell}
    /\ UNCHANGED <<size, on_cells, pc, op, arg, pre, ret>>

\* update(): one iteration of `for cell in self.on_cells`
update_survive(cell) ==
    /\ pc = "survive"
    /\ cell \in todo
    /\ new_on_cells' = IF stays_on(cell, on_cells, size)
                         THEN new_on_cells \cup {cell}
                         ELSE new_on_cells
    /\ off_nbrs_of_on_cells' = off_nbrs_of_on_cells \cup off_nbrs(cell, on_cells, size)
    /\ todo' = todo \ {cell}
    /\ UNCHANGED <<size, on_cells, pc, op, arg, pre, ret>>

\* update() starting its first loop again where its second loop should start
update_second_loop_restarting ==
    /\ pc = "survive"
    /\ todo = {}
    /\ todo' = on_cells
    /\ UNCHANGED <<size, on_cells, pc, new_on_cells, off_nbrs_of_on_cells, op, arg, pre, ret>>

\* update(): the first loop is over, the second starts
update_second_loop ==
    /\ pc = "survive"
    /\ todo = {}
    /\ pc' = "birth"
    /\ todo' = off_nbrs_of_on_cells
    /\ UNCHANGED <<size, on_cells, new_on_cells, off_nbrs_of_on_cells, op, arg, pre, ret>>

\* the second loop counting neighbours in the set it is building
update_birth_reading_new(cell) ==
    /\ pc = "birth"
    /\ cell \in todo
    /\ new_on_cells' = IF turns_on(cell, new_on_cells, size)
                         THEN new_on_cells \cup {cell}
                         ELSE new_on_cells
    /\ todo' = todo \ {cell}
    /\ UNCHANGED <<size, on_cells, pc, off_nbrs_of_on_cells, op, arg, pre, ret>>

\* update(): one iteration of `for cell in off_nbrs_of_on_cells`
update_birth(cell) ==
    /\ pc = "birth"
    /\ cell \in todo
    /\ new_on_cells' = IF turns_on(cell, on_cells, size)
                         THEN new_on_cells \cup {cell}
                         ELSE new_on_cells
    /\ todo' = todo \ {cell}
    /\ UNCHANGED <<size, on_cells, pc, off_nbrs_of_on_cells, op, arg, pre, ret>>

\* update(): `self.on_cells = new_on_cells`, and the call returns
update_end ==
    /\ pc = "birth"
    /\ todo = {}
    /\ on_cells' = new_on_cells
    /\ pc' = "returned"
    /\ new_on_cells' = {}
    /\ off_nbrs_of_on_cells' = {}
    /\ UNCHANGED <<size, todo, op, arg, pre, ret>>

-----------------------------------------------------------------------------
(* The grid driven by a caller: any in-range edits, queries and updates.   *)

Init == \E N \in 1 .. MaxSize : init_grid(N)

Next ==
    /\ \/ /\ pc = "idle"
          /\ \E cells \in CellSets(size) : turn_on(cells)
       \/ /\ pc = "idle"
          /\ \E cells \in CellSets(size) : turn_off(cells)
       \/ /\ pc = "idle"
          /\ \E cell \in Cells(size) : call_neighbours(cell)
       \/ /\ pc = "idle"
          /\ \E cell \in Cells(size) : call_on_neighbours(cell)
       \/ caller_resumes
       \/ update_begin
       \/ /\ pc = "survive"
          /\ \E cell \in next_in_loop(todo) : update_survive(cell)
       \/ update_second_loop
       \/ /\ pc = "birth"
          /\ \E cell \in next_in_loop(todo) : update_birth(cell)
       \/ update_end
    /\ UNCHANGED <<seeded, seed, gens>>
    /\ no_display

Spec == Init /\ [][Next]_vars

-----------------------------------------------------------------------------
(* The grid driven as main() and display() drive it: a grid is made, one    *)
(* pattern is turned on (or none: the empty collection), the driver may    *)
(* ask for neighbours, then update() is called again and again.            *)

\* the pattern `cells` moved by `o` on the wrapped grid
shifted(cells, o, N) == { <<(x[1] + o[1]) % N, (x[2] + o[2]) % N>> : x \in cells }

\* a 2 x 2 block, a row of three and a column of three around (0, 0), a glider
Block == { <<0, 0>>, <<0, 1>>, <<1, 0>>, <<1, 1>> }
Row3 == { <<0, -1>>, <<0, 0>>, <<0, 1>> }
Column3 == { <<-1, 0>>, <<0, 0>>, <<1, 0>> }
Glider == { <<0, 1>>, <<1, 2>>, <<2, 0>>, <<2, 1>>, <<2, 2>> }

\* where a pattern is put: anywhere on a small grid; near the corner where the
\* edges meet, or at the middle, on the grid of main()
Offsets(N) ==
    IF N <= MaxPatternSize
    THEN Cells(N)
    ELSE LET near == {(N - MaxOff + i) % N : i \in 0 .. 2 * MaxOff} \cup {N \div 2}
         IN  near \X near

\* the 3 x 3 square of cells around the corner cell (0, 0) of the wrapped grid
CornerSquare(N) == { <<dr % N, dc % N>> : dr \in -1 .. 1, dc \in -1 .. 1 }

\* the cells the driver asks the neighbours of
QueryCells(N) == IF N <= MaxPatternSize THEN Cells(N) ELSE Offsets(N)

\* the patterns the driver turns on
Seeds(N) ==
    {{}}
    \cup (IF N <= MaxSoupSize
          THEN {C \cup {<<0, 0>>} :
                   C \in SubsetsUpTo(CornerSquare(N) \ {<<0, 0>>}, MaxSeed - 1)}
          ELSE {})
    \cup (IF N >= MinBlockSize THEN {shifted(Block, o, N) : o \in Offsets(N)} ELSE {})
    \cup (IF N >= MinBlinkerSize THEN {shifted(Row3, o, N) : o \in Offsets(N)} ELSE {})
    \cup (IF N = GliderSize THEN {shifted(Glider, o, N) : o \in Offsets(N)} ELSE {})

LifeSizes == (1 .. MaxSoupSize) \cup (MinBlockSize .. MaxPatternSize) \cup {GliderSize}

InitLife == \E N \in LifeSizes : init_grid(N)

NextLife ==
    \/ /\ pc = "idle"
       /\ ~seeded
       /\ \E cells \in Seeds(size) :
             /\ turn_on(cells)
             /\ seed' = cells
       /\ seeded' = TRUE
       /\ UNCHANGED gens
       /\ no_display
    \/ /\ pc = "idle"
       /\ seeded
       /\ gens = 0
       /\ \E cell \in QueryCells(size) : call_neighbours(cell)
       /\ UNCHANGED <<seeded, seed, gens>>
       /\ no_display
    \/ /\ pc = "idle"
       /\ seeded
       /\ gens = 0
       /\ \E cell \in QueryCells(size) : call_on_neighbours(cell)
       /\ UNCHANGED <<seeded, seed, gens>>
       /\ no_display
    \/ /\ caller_resumes
       /\ UNCHANGED <<seeded, seed, gens>>
       /\ no_display
    \/ /\ seeded
       /\ gens < MaxGens
       /\ update_begin
       /\ UNCHANGED <<seeded, seed, gens>>
       /\ no_display
    \/ /\ pc = "survive"
       /\ \E cell \in next_in_loop(todo) : update_survive(cell)
       /\ UNCHANGED <<seeded, seed, gens>>
       /\ no_display
    \/ /\ update_second_loop
       /\ UNCHANGED <<seeded, seed, gens>>
       /\ no_display
    \/ /\ pc = "birth"
       /\ \E cell \in next_in_loop(todo) : update_birth(cell)
       /\ UNCHANGED <<seeded, seed, gens>>
       /\ no_display
    \/ /\ update_end
       /\ gens' = gens + 1
       /\ UNCHANGED <<seeded, seed>>
       /\ no_display

SpecLife == InitLife /\ [][NextLife]_vars

-----------------------------------------------------------------------------
(* Two grids given the same calls: a grid is made, some cells are turned   *)
(* on, and two edits are made; then a second grid of the same size is made, *)
(* the same cells are turned on, and the same two edits are made in the     *)
(* other order.  The driver notes every call that returns in `log`.         *)

\* cells a caller may name whatever the grid's size: (0, 0), and cells that are
\* whole grids away from it
EditCells(N) == { <<k * N, k * (N + 1)>> : k \in -1 .. MaxEditCells - 2 }

\* Grid(size) once more: the driver makes another grid of the same size
new_grid ==
    /\ pc = "idle"
    /\ on_cells' = {}
    /\ pc' = "returned"
    /\ op' = "Grid"
    /\ arg' = {}
    /\ pre' = on_cells
    /\ ret' = {}
    /\ UNCHANGED size
    /\ locals_unchanged

\* the caller notes the call that has returned and goes on to its next call
note_call ==
    /\ caller_resumes
    /\ log' = Append(log, [op |-> op, arg |-> arg, pre |-> pre, post |-> on_cells])

\* what the driver of two grids leaves alone
twice_unchanged == UNCHANGED <<seeded, seed, gens, dpc, n_updates, i_u, frames>>

\* the call of the first grid that the second grid repeats next: its second edit
\* first, then its first edit
replayed == log[IF Len(log) = 5 THEN 3 ELSE 2]

InitTwice == \E N \in 1 .. MaxSize : init_grid(N)

NextTwice ==
    \/ /\ pc = "idle"
       /\ Len(log) \in 0 .. 2
       /\ \E cells \in SUBSET EditCells(size) : turn_on(cells)
       /\ UNCHANGED log
       /\ twice_unchanged
    \/ /\ pc = "idle"
       /\ Len(log) \in 1 .. 2
       /\ \E cells \in SUBSET EditCells(size) : turn_off(cells)
       /\ UNCHANGED log
       /\ twice_unchanged
    \/ /\ Len(log) = 3
       /\ new_grid
       /\ UNCHANGED log
       /\ twice_unchanged
    \/ /\ pc = "idle"
       /\ Len(log) = 4
       /\ turn_on(log[1].arg)
       /\ UNCHANGED log
       /\ twice_unchanged
    \/ /\ pc = "idle"
       /\ Len(log) \in 5 .. 6
       /\ replayed.op = "turn_on"
       /\ turn_on(replayed.arg)
       /\ UNCHANGED log
       /\ twice_unchanged
    \/ /\ pc = "idle"
       /\ Len(log) \in 5 .. 6
       /\ replayed.op = "turn_off"
       /\ turn_off(replayed.arg)
       /\ UNCHANGED log
       /\ twice_unchanged
    \/ /\ note_call
       /\ twice_unchanged

SpecTwice == InitTwice /\ [][NextTwice]_vars

-----------------------------------------------------------------------------
(* The grid driven by a caller that keeps to no range: the grid may have   *)
(* size 0, and the cells it names may lie outside the grid.  On a grid of  *)
(* size 0, `% self.size` in neighbours raises ZeroDivisionError, which     *)
(* nothing catches: the call that made it, and the program, end there.     *)

\* Grid.neighbours on a grid of size 0: (r - 1) % self.size raises
neighbours_raises(cell) ==
    /\ pc = "idle"
    /\ size = 0
    /\ pc' = "raised"
    /\ op' = "neighbours"
    /\ arg' = {cell}
    /\ pre' = on_cells
    /\ ret' = {}
    /\ UNCHANGED <<size, on_cells>>
    /\ locals_unchanged

\* Grid.on_neighbours on a grid of size 0: its call of neighbours raises
on_neighbours_raises(cell) ==
    /\ pc = "idle"
    /\ size = 0
    /\ pc' = "raised"
    /\ op' = "on_neighbours"
    /\ arg' = {cell}
    /\ pre' = on_cells
    /\ ret' = {}
    /\ UNCHANGED <<size, on_cells>>
    /\ locals_unchanged

\* Grid.update on a grid of size 0: the first loop's call of neighbours raises,
\* and update() is left with self.on_cells as it was
update_raises(cell) ==
    /\ pc = "survive"
    /\ size = 0
    /\ cell \in todo
    /\ pc' = "raised"
    /\ new_on_cells' = {}
    /\ off_nbrs_of_on_cells' = {}
    /\ todo' = {}
    /\ UNCHANGED <<size, on_cells, op, arg, pre, ret>>

\* the cells of the grid and cells outside it
AnyCells(N) == Cells(N) \cup EditCells(N)

\* the collections this caller turns on
AnySeeds(N) == SubsetsUpTo(AnyCells(N), MaxAnySeed)

\* A call of update() that has started runs on: Python runs the two loops and the
\* assignment that follows them without waiting for anything.
update_runs ==
    \/ /\ pc = "survive"
       /\ size # 0
       /\ \E cell \in next_in_loop(todo) : update_survive(cell)
       /\ UNCHANGED <<seeded, seed, gens>>
       /\ no_display
    \/ /\ pc = "survive"
       /\ \E cell \in next_in_loop(todo) : update_raises(cell)
       /\ UNCHANGED <<seeded, seed, gens>>
       /\ no_display
    \/ /\ update_second_loop
       /\ UNCHANGED <<seeded, seed, gens>>
       /\ no_display
    \/ /\ pc = "birth"
       /\ size # 0
       /\ \E cell \in next_in_loop(todo) : update_birth(cell)
       /\ UNCHANGED <<seeded, seed, gens>>
       /\ no_display
    \/ /\ update_end
       /\ gens' = gens + 1
       /\ UNCHANGED <<seeded, seed>>
       /\ no_display

InitAny == \E N \in 0 .. MaxSize : init_grid(N)

NextAny ==
    \/ /\ pc = "idle"
       /\ ~seeded
       /\ \E cells \in AnySeeds(size) :
             /\ turn_on(cells)
             /\ seed' = cells
       /\ seeded' = TRUE
       /\ UNCHANGED gens
       /\ no_display
    \/ /\ pc = "idle"
       /\ seeded
       /\ gens = 0
       /\ on_cells = seed
       /\ \E cell \in AnyCells(size) : turn_off({cell})
       /\ UNCHANGED <<seeded, seed, gens>>
       /\ no_display
    \/ /\ pc = "idle"
       /\ seeded
       /\ gens = 0
       /\ size # 0
       /\ \E cell \in AnyCells(size) : call_neighbours(cell)
       /\ UNCHANGED <<seeded, seed, gens>>
       /\ no_display
    \/ /\ pc = "idle"
       /\ seeded
       /\ gens = 0
       /\ size # 0
       /\ \E cell \in AnyCells(size) : call_on_neighbours(cell)
       /\ UNCHANGED <<seeded, seed, gens>>
       /\ no_display
    \/ /\ seeded
       /\ gens = 0
       /\ \E cell \in AnyCells(size) : neighbours_raises(cell)
       /\ UNCHANGED <<seeded, seed, gens>>
       /\ no_display
    \/ /\ seeded
       /\ gens = 0
       /\ \E cell \in AnyCells(size) : on_neighbours_raises(cell)
       /\ UNCHANGED <<seeded, seed, gens>>
       /\ no_display
    \/ /\ caller_resumes
       /\ UNCHANGED <<seeded, seed, gens>>
       /\ no_display
    \/ /\ seeded
       /\ gens < MaxAnyUpdates
       /\ update_begin
       /\ UNCHANGED <<seeded, seed, gens>>
       /\ no_display
    \/ update_runs

SpecAny == InitAny /\ [][NextAny]_vars /\ WF_vars(update_runs)

-----------------------------------------------------------------------------
(* Grid.display and Grid._display.  What matplotlib draws is left out: a   *)
(* frame is the title and the list of lists handed to it.  i_u counts the  *)
(* iterations of display()'s loop that are over, which is the value the    *)
(* loop variable has in the iteration that runs.                           *)

\* _display: `[[0 for _ in range(self.size)] for _ in range(self.size)]`
zeros(N) == [i_r \in 0 .. N - 1 |-> [i_c \in 0 .. N - 1 |-> 0]]

\* _display: `for i_r, i_c in self.on_cells: arr[i_r][i_c] = 1`
RECURSIVE filled(_, _)
filled(arr, cells) ==
    IF cells = {} THEN arr
    ELSE LET cell == CHOOSE x \in cells : TRUE
         IN  filled([arr EXCEPT ![cell[1]][cell[2]] = 1], cells \ {cell})

\* _display with `arr[i_c][i_r] = 1`
display_arr_transposed(S, N) == filled(zeros(N), {<<x[2], x[1]>> : x \in S})

\* _display: the list of lists it hands to imshow, for in-range on-cells S
display_arr(S, N) == filled(zeros(N), S)

\* Grid._display
_display(title) ==
    /\ frames' = Append(frames, [title |-> title, arr |-> display_arr(on_cells, size)])
    /\ UNCHANGED <<size, on_cells>>

\* display(): `for i_u in range(n_updates)` has an iteration left after i_u + 1
loop_goes_on_once_more == i_u <= n_updates

\* display(): `for i_u in range(n_updates)` has an iteration left
loop_goes_on == i_u < n_updates

\* a call of Grid.display
display(n) ==
    /\ pc = "idle"
    /\ dpc = "out"
    /\ dpc' = "initial"
    /\ n_updates' = n
    /\ i_u' = 0
    /\ frames' = <<>>
    /\ UNCHANGED <<size, on_cells, pc, op, arg, pre, ret>>
    /\ locals_unchanged

\* display(): `self._display(axs, title='Initial state')`
display_initial ==
    /\ dpc = "initial"
    /\ _display("Initial state")
    /\ dpc' = "loop"
    /\ UNCHANGED <<pc, op, arg, pre, ret, n_updates, i_u>>
    /\ locals_unchanged

\* display(): `self.update()` is called in the loop
display_update ==
    /\ dpc = "loop"
    /\ loop_goes_on
    /\ update_begin
    /\ dpc' = "updating"
    /\ UNCHANGED <<n_updates, i_u, frames>>

\* display(): update() has returned; `self._display(axs, title=f'State after
\* {1 + i_u} updates')`, the pause, and the loop goes to its next iteration
display_frame ==
    /\ dpc = "updating"
    /\ pc = "returned"
    /\ _display("State after " \o ToString(1 + i_u) \o " updates")
    /\ i_u' = i_u + 1
    /\ dpc' = "loop"
    /\ pc' = "idle"
    /\ op' = "none"
    /\ arg' = {}
    /\ pre' = {}
    /\ ret' = {}
    /\ UNCHANGED n_updates
    /\ locals_unchanged

\* display(): the loop is over and the call returns
display_returns ==
    /\ dpc = "loop"
    /\ ~loop_goes_on
    /\ dpc' = "done"
    /\ pc' = "returned"
    /\ op' = "display"
    /\ arg' = {}
    /\ pre' = on_cells
    /\ ret' = {}
    /\ UNCHANGED <<size, on_cells, n_updates, i_u, frames>>
    /\ locals_unchanged

\* what update() leaves alone of display()
in_display == UNCHANGED <<log, dpc, n_updates, i_u, frames>>

\* A call of display() that has started runs on to its return, and so does the
\* update() it calls.
display_runs ==
    \/ /\ display_initial
       /\ UNCHANGED <<seeded, seed, gens, log>>
    \/ /\ display_update
       /\ UNCHANGED <<seeded, seed, gens, log>>
    \/ /\ pc = "survive"
       /\ \E cell \in next_in_loop(todo) : update_survive(cell)
       /\ UNCHANGED <<seeded, seed, gens>>
       /\ in_display
    \/ /\ update_second_loop
       /\ UNCHANGED <<seeded, seed, gens>>
       /\ in_display
    \/ /\ pc = "birth"
       /\ \E cell \in next_in_loop(todo) : update_birth(cell)
       /\ UNCHANGED <<seeded, seed, gens>>
       /\ in_display
    \/ /\ update_end
       /\ gens' = gens + 1
       /\ UNCHANGED <<seeded, seed>>
       /\ in_display
    \/ /\ display_frame
       /\ UNCHANGED <<seeded, seed, gens, log>>
    \/ /\ display_returns
       /\ UNCHANGED <<seeded, seed, gens, log>>

InitDisplay == \E N \in 1 .. MaxDisplaySize : init_grid(N)

NextDisplay ==
    \/ /\ pc = "idle"
       /\ ~seeded
       /\ \E cells \in Seeds(size) :
             /\ turn_on(cells)
             /\ seed' = cells
       /\ seeded' = TRUE
       /\ UNCHANGED gens
       /\ no_display
    \/ /\ dpc = "out"
       /\ caller_resumes
       /\ UNCHANGED <<seeded, seed, gens>>
       /\ no_display
    \/ /\ seeded
       /\ \E n \in -1 .. MaxUpdates : display(n)
       /\ UNCHANGED <<seeded, seed, gens, log>>
    \/ display_runs

SpecDisplay == InitDisplay /\ [][NextDisplay]_vars /\ WF_vars(display_runs)

-----------------------------------------------------------------------------
(* The rule of the Game of Life, stated cell by cell and offset by offset. *)

\* the 8 offsets to a cell's neighbours
Offsets8 == {d \in (-1 .. 1) \X (-1 .. 1) : d # <<0, 0>>}

\* the cell at offset d from `cell` on the wrapped grid
wrapped(cell, d, N) == <<(cell[1] + d[1]) % N, (cell[2] + d[2]) % N>>

\* how many of the 8 wrapped neighbours of `cell` are in S
on_count(cell, S, N) == Cardinality({d \in Offsets8 : wrapped(cell, d, N) \in S})

\* `cell` is on in the generation after S
conway(cell, S, N) ==
    \/ cell \in S /\ on_count(cell, S, N) \in {2, 3}
    \/ cell \notin S /\ on_count(cell, S, N) = 3

\* S and the cells around it
surroundings(S, N) == S \cup {wrapped(cell, d, N) : cell \in S, d \in Offsets8}

\* The cells the rule is checked on after an update: all of them on a small grid.
\* On the grid of main(), the cells that were or are on and those around them:
\* every other cell is off before and after, with no on cell among its neighbours.
cells_to_check ==
    IF size <= MaxPatternSize THEN Cells(size) ELSE surroundings(pre \cup on_cells, size)

\* an update() call has just returned
update_returned == pc = "returned" /\ op = "update"

-----------------------------------------------------------------------------
(* Claims. *)

\* C1: on a grid of size N >= 3, one update() produces exactly the next generation
\* of the Game of Life on the torus: a cell is on afterwards iff it was on with 2 or
\* 3 of its 8 wrapped neighbours on, or off with exactly 3 of them on, all counted
\* in the grid as it was before the call.
C1_UpdateIsConway ==
    (update_returned /\ size >= 3) =>
        /\ on_cells \subseteq cells_to_check
        /\ \A cell \in cells_to_check : cell \in on_cells <=> conway(cell, pre, size)

\* C1 witness: an update on a grid of size >= 3 in which a cell stayed on, a cell
\* went off and a cell came on.
C1_Witness ==
    /\ update_returned
    /\ size >= 3
    /\ pre \cap on_cells # {}
    /\ pre \ on_cells # {}
    /\ on_cells \ pre # {}

\* C2: the caller gives turn_on only in-range cells, and after any sequence of
\* turn_on, turn_off and update calls every cell of on_cells is in range.
C2_OnCellsInRange == on_cells \subseteq Cells(size)

\* C2 witness: an update has turned on a cell on a grid whose every cell is a
\* wrapped neighbour of every other.
C2_Witness ==
    /\ update_returned
    /\ size >= 2
    /\ on_cells \ pre # {}

\* C3: on a grid of size N >= 3, neighbours((r, c)) is exactly the 8 cells
\* ((r + dr) mod N, (c + dc) mod N) with (dr, dc) # (0, 0); it never holds (r, c);
\* neighbours((0, 0)) holds (N-1, N-1), (N-1, 0) and (0, N-1).
C3_NeighboursWrap ==
    (pc = "returned" /\ op = "neighbours" /\ size >= 3) =>
        \A cell \in arg :
            /\ ret = {wrapped(cell, d, size) : d \in Offsets8}
            /\ Cardinality(ret) = 8
            /\ cell \notin ret
            /\ cell = <<0, 0>> =>
                  {<<size - 1, size - 1>>, <<size - 1, 0>>, <<0, size - 1>>} \subseteq ret

\* C3 witness: neighbours((0, 0)) has returned on a grid of size >= 3, with the
\* cell across the corner in it.
C3_Witness ==
    /\ pc = "returned"
    /\ op = "neighbours"
    /\ size >= 3
    /\ arg = {<<0, 0>>}
    /\ <<size - 1, size - 1>> \in ret

\* update() is inside one of its two loops
in_update == pc \in {"survive", "birth"}

\* C4: while update() scans, on_cells keeps its pre-update value and the result is
\* built from counts in that old generation only; on_cells changes only in the
\* step that ends the call, from the pre-update set to the complete next generation.
C4_UpdateAtomic ==
    [][ in_update =>
          /\ on_cells = pre
          /\ \A cell \in new_on_cells :
                IF cell \in pre THEN stays_on(cell, pre, size) ELSE turns_on(cell, pre, size)
          /\ on_cells' # on_cells =>
                /\ pc' = "returned"
                /\ on_cells' = next_on_cells(pre, size) ]_vars

\* C4 witness: update() is in its second loop with cells left to visit, and the
\* result built so far already differs from on_cells.
C4_Witness ==
    /\ pc = "birth"
    /\ todo # {}
    /\ new_on_cells # {}
    /\ new_on_cells # on_cells
    /\ on_cells # {}

\* C5: after turn_on(C), on_cells is the old on_cells union C; after turn_off(C) it
\* is the old on_cells minus C; no cell outside C changes.
C5_EditFrame ==
    /\ (pc = "returned" /\ op = "turn_on") =>
          /\ on_cells = pre \cup arg
          /\ \A cell \in Cells(size) \ arg : cell \in on_cells <=> cell \in pre
    /\ (pc = "returned" /\ op = "turn_off") =>
          /\ on_cells = pre \ arg
          /\ \A cell \in Cells(size) \ arg : cell \in on_cells <=> cell \in pre

\* C5 witness: turn_off has returned after being given a cell that was on, a cell
\* that was off, and not every cell that was on.
C5_Witness ==
    /\ pc = "returned"
    /\ op = "turn_off"
    /\ arg \cap pre # {}
    /\ arg \ pre # {}
    /\ pre \ arg # {}

\* S is the glider, the block put somewhere on the grid (the block's first cell
\* is at its offset, the glider's first cell one column after its offset)
is_glider(S) == \E x \in S : S = shifted(Glider, <<x[1], x[2] - 1>>, size)
is_block(S) == \E x \in S : S = shifted(Block, x, size)

\* C6: on the grid of size 200, the glider turned on at any offset is, after four
\* update() calls, the same glider moved by (1, 1) modulo the grid size.
C6_GliderMoves ==
    (size = GliderSize /\ seeded /\ gens = 4 /\ is_glider(seed)) =>
        on_cells = shifted(seed, <<1, 1>>, size)

\* C6 witness: four updates after a glider was turned on across the grid's edge.
C6_Witness ==
    /\ size = GliderSize
    /\ seeded
    /\ gens = 4
    /\ is_glider(seed)
    /\ \E a \in seed, b \in seed : a[1] = size - 1 /\ b[1] = 0
    /\ on_cells # seed

\* C7: on a grid of size >= 6, a row of three on-cells is, after one update(), the
\* column of three through its middle cell, and after a second update() the row.
C7_Blinker ==
    (size >= 6 /\ seeded /\ gens \in {1, 2}) =>
        \A o \in seed :
            seed = shifted(Row3, o, size) =>
                /\ gens = 1 => on_cells = shifted(Column3, o, size)
                /\ gens = 2 => on_cells = seed

\* C7 witness: two updates after a row of three was turned on.
C7_Witness ==
    /\ size >= 6
    /\ seeded
    /\ gens = 2
    /\ update_returned
    /\ \E o \in seed : seed = shifted(Row3, o, size)
    /\ pre # on_cells

\* C8: on a grid of size >= 5, a 2 x 2 block of on-cells is unchanged by update(),
\* however often it is called.
C8_BlockIsStill ==
    (size >= 5 /\ seeded /\ is_block(seed)) => on_cells = seed

\* C8 witness: a second update() has returned after a block was turned on.
C8_Witness ==
    /\ size >= 5
    /\ seeded
    /\ gens >= 2
    /\ update_returned
    /\ is_block(seed)

\* C9: on a grid of any size, update() on empty on_cells leaves on_cells empty, and
\* a new grid on which nothing is turned on is empty after any number of updates.
C9_EmptyStaysEmpty ==
    /\ (update_returned /\ pre = {}) => on_cells = {}
    /\ (seeded /\ seed = {}) => on_cells = {}

\* C9 witness: a second update() has returned on a grid that started it empty.
C9_Witness ==
    /\ update_returned
    /\ pre = {}
    /\ seed = {}
    /\ gens >= 2

\* the grid k generations after S, by update() as a function
RECURSIVE generation(_, _, _)
generation(S, N, k) == IF k = 0 THEN S ELSE next_on_cells(generation(S, N, k - 1), N)

\* C10: on_cells after k update() calls is a function of the grid's size, the cells
\* turned on and k: it is the same in every run, whatever order the two loops of
\* update() visit their sets in.
C10_Deterministic ==
    (seeded /\ pc = "returned") => on_cells = generation(seed, size, gens)

\* C10 witness: a second update() has returned with cells on, on a grid of size
\* >= 3, and both updates changed the grid.
C10_Witness ==
    /\ update_returned
    /\ size >= 3
    /\ gens = 2
    /\ on_cells # {}
    /\ on_cells # pre
    /\ pre # seed

\* the call noted at place i of the log is a turn_on, a turn_off
is_edit(i) == log[i].op \in {"turn_on", "turn_off"}

\* C11: turn_on(C) twice gives the same on_cells as turn_on(C) once, and so for
\* turn_off(C); turn_on of cells that are all on, and turn_off of cells that are all
\* off, leave on_cells as it was; two turn_on calls, or two turn_off calls, made
\* in either order on grids in the same state give the same on_cells.
C11_EditsIdempotentCommute ==
    /\ \A i \in 1 .. Len(log) - 1 :
          (is_edit(i) /\ log[i + 1].op = log[i].op /\ log[i + 1].arg = log[i].arg) =>
              log[i + 1].post = log[i].post
    /\ \A i \in 1 .. Len(log) :
          /\ (log[i].op = "turn_on" /\ log[i].arg \subseteq log[i].pre) =>
                log[i].post = log[i].pre
          /\ (log[i].op = "turn_off" /\ log[i].arg \cap log[i].pre = {}) =>
                log[i].post = log[i].pre
    /\ (Len(log) = 7 /\ log[2].op = log[3].op) =>
          /\ log[5].post = log[1].post
          /\ log[6].op = log[3].op /\ log[6].arg = log[3].arg
          /\ log[7].op = log[2].op /\ log[7].arg = log[2].arg
          /\ log[7].post = log[3].post

\* C11 witness: both grids have had their two turn_off calls, whose collections
\* overlap without one holding the other, each naming a cell that was on; the
\* first call on the second grid did not give what the first call on the first did.
C11_Witness ==
    /\ Len(log) = 7
    /\ log[2].op = "turn_off"
    /\ log[3].op = "turn_off"
    /\ log[2].arg \cap log[3].arg # {}
    /\ log[2].arg \ log[3].arg # {}
    /\ log[3].arg \ log[2].arg # {}
    /\ log[2].arg \cap log[1].post # {}
    /\ log[6].post # log[2].post

\* C12: on a grid of size 1 or 2, neighbours(cell) of an in-range cell never holds
\* the cell and has fewer than 8 cells: none on a grid of size 1, the 3 other cells
\* of the grid on a grid of size 2.
C12_SmallGridNeighbours ==
    (pc = "returned" /\ op = "neighbours" /\ size \in {1, 2}) =>
        \A cell \in arg \cap Cells(size) :
            /\ cell \notin ret
            /\ Cardinality(ret) < 8
            /\ size = 1 => ret = {}
            /\ size = 2 => ret = Cells(2) \ {cell} /\ Cardinality(ret) = 3

\* C12 witness: neighbours((1, 1)) has returned 3 cells on a grid of size 2.
C12_Witness ==
    /\ pc = "returned"
    /\ op = "neighbours"
    /\ size = 2
    /\ arg = {<<1, 1>>}
    /\ Cardinality(ret) = 3

\* C13: on a grid of size >= 1 whose cells, and the cells named in calls, are in
\* range, no call of turn_on, turn_off, neighbours, on_neighbours or update ends in
\* an error, and every update() that has started returns.
C13_Total ==
    /\ []((size >= 1 /\ (on_cells \cup pre \cup arg) \subseteq Cells(size)) => pc # "raised")
    /\ (in_update /\ size >= 1 /\ on_cells \subseteq Cells(size)) ~> update_returned

\* C13 witness: update() has returned on a grid of size 2 that had 3 in-range cells
\* on, after visiting them and the fourth cell, which it turned on.
C13_Witness ==
    /\ update_returned
    /\ size = 2
    /\ pre \subseteq Cells(size)
    /\ Cardinality(pre) = 3
    /\ on_cells = Cells(size)

\* C14: turn_on never ends in an error, whatever cells it is given, and leaves
\* on_cells as the old on_cells plus exactly the cells given, coordinates as given;
\* neighbours reduces only its -1 / +1 offsets: the row of an out-of-range cell
\* comes back in its result as it is.
C14_OutOfRangeKept ==
    /\ op = "turn_on" => pc # "raised"
    /\ (pc = "returned" /\ op = "turn_on") =>
          /\ arg \subseteq on_cells
          /\ on_cells \ pre \subseteq arg
          /\ pre \subseteq on_cells
    /\ (pc = "returned" /\ op = "neighbours") =>
          \A cell \in arg :
              \A x \in {<<cell[1], (cell[2] + 1) % size>>, <<(cell[1] - 1) % size, cell[2]>>} :
                  x = cell \/ x \in ret

\* C14 witness: turn_on has returned on a grid of size 2 after being given (2, 3)
\* and (-2, -3), with both on and their reductions (0, 1) and (0, 1) off.
C14_Witness ==
    /\ pc = "returned"
    /\ op = "turn_on"
    /\ size = 2
    /\ {<<2, 3>>, <<-2, -3>>} \subseteq arg
    /\ {<<2, 3>>, <<-2, -3>>} \subseteq on_cells
    /\ <<0, 1>> \notin on_cells

\* the cells at the 8 offsets from `cell`, a shifted coordinate reduced modulo N and
\* an unshifted one left as it is: a function of the cell and N only
cells_around(cell, N) ==
    { <<IF d[1] = 0 THEN cell[1] ELSE (cell[1] + d[1]) % N,
        IF d[2] = 0 THEN cell[2] ELSE (cell[2] + d[2]) % N>> : d \in Offsets8 } \ {cell}

\* a call of neighbours or on_neighbours is returning, or failing, in this step
query_step == pc = "idle" /\ op' \in {"neighbours", "on_neighbours"}

\* C15: no step changes size; a grid on which nothing has been called yet has no
\* cell on; on_cells changes only in a step in which turn_on, turn_off or update
\* returns; neighbours and on_neighbours change neither size nor on_cells; what
\* neighbours returns is decided by the cell and size, whatever cells are on.
C15_Frame ==
    /\ []((~seeded /\ pc = "idle") => on_cells = {})
    /\ []((pc = "returned" /\ op = "neighbours") =>
              \A cell \in arg : ret = cells_around(cell, size))
    /\ [][ /\ size' = size
           /\ on_cells' # on_cells =>
                 pc' = "returned" /\ op' \in {"turn_on", "turn_off", "update"}
           /\ query_step => on_cells' = on_cells /\ size' = size ]_vars

\* C15 witness: neighbours has returned on a grid of size 2 on which a turn_off has
\* left cells on, with some of the cells it returned on and some off.
C15_Witness ==
    /\ pc = "returned"
    /\ op = "neighbours"
    /\ size = 2
    /\ on_cells # seed
    /\ ret \cap on_cells # {}
    /\ ret \ on_cells # {}

\* update()'s first loop is over and its second loop has not visited a cell yet
candidates_gathered == pc = "birth" /\ todo = off_nbrs_of_on_cells

\* The cells looked at for births: all of them on a small grid; on the grid of
\* main(), the cells that are on and those around them.
cells_near ==
    IF size <= MaxPatternSize THEN Cells(size) ELSE surroundings(on_cells, size)

\* C16: when update() has scanned the on-cells of an in-range grid, the candidate
\* set it has gathered is exactly the off-cells with at least one on-neighbour: it
\* holds no on-cell and it holds every off-cell with exactly 3 on-neighbours; the
\* neighbour relation is symmetric.
C16_Candidates ==
    candidates_gathered =>
        /\ off_nbrs_of_on_cells =
              {cell \in cells_near \ on_cells : on_neighbours(cell, on_cells, size) # {}}
        /\ off_nbrs_of_on_cells \cap on_cells = {}
        /\ \A cell \in cells_near \ on_cells :
              Cardinality(on_neighbours(cell, on_cells, size)) = 3 =>
                  cell \in off_nbrs_of_on_cells
        /\ \A a \in cells_near, b \in cells_near :
              b \in neighbours(a, size) <=> a \in neighbours(b, size)

\* C16 witness: on a grid of size >= 4 the candidate set holds a cell with exactly
\* 3 on-neighbours and a cell with another count, the set of cells that stay on is
\* not the set of on-cells, and some off-cell is no candidate.
C16_Witness ==
    /\ candidates_gathered
    /\ size >= 4
    /\ \E cell \in off_nbrs_of_on_cells : turns_on(cell, on_cells, size)
    /\ \E cell \in off_nbrs_of_on_cells : ~turns_on(cell, on_cells, size)
    /\ new_on_cells # on_cells
    /\ Cells(size) \ (on_cells \cup off_nbrs_of_on_cells) # {}

\* C17: update() commutes with moving the pattern on the torus: for every shift,
\* updating the shifted pre-update grid gives the updated grid shifted the same
\* way, so no row or column of the grid is treated specially.
C17_TranslationCommutes ==
    update_returned =>
        \A d \in Offsets(size) :
            next_on_cells(shifted(pre, d, size), size) = shifted(on_cells, d, size)

\* C17 witness: update() has returned after changing a pattern that lay across the
\* top and bottom rows of a grid of size >= 3, turning a cell on and a cell off.
C17_Witness ==
    /\ update_returned
    /\ size >= 3
    /\ \E a \in pre, b \in pre : a[1] = size - 1 /\ b[1] = 0
    /\ on_cells \ pre # {}
    /\ pre \ on_cells # {}
    /\ on_cells # {}

\* _display is building a frame in this step
frame_step == Len(frames') = Len(frames) + 1

\* C18: the list of lists _display builds from in-range on_cells has N rows of N
\* entries, entry [r][c] being 1 if (r, c) is in on_cells and 0 if not, and
\* building it leaves on_cells as it was.
C18_DisplayMatrix ==
    [][ frame_step =>
          LET arr == frames'[Len(frames')].arr
          IN  /\ DOMAIN arr = 0 .. size - 1
              /\ \A r \in 0 .. size - 1 :
                    /\ DOMAIN arr[r] = 0 .. size - 1
                    /\ \A c \in 0 .. size - 1 :
                          /\ arr[r][c] \in {0, 1}
                          /\ arr[r][c] = 1 <=> <<r, c>> \in on_cells
              /\ on_cells' = on_cells ]_vars

\* C18 witness: on a grid of size 3, a frame built after an update has a 1 at
\* [0][1] and a 0 at [1][0], and 0s and 1s in one row.
C18_Witness ==
    /\ size = 3
    /\ Len(frames) >= 2
    /\ frames[Len(frames)].arr[0][1] = 1
    /\ frames[Len(frames)].arr[1][0] = 0
    /\ frames[Len(frames)].arr[2][2] = 1
    /\ frames[Len(frames)].arr[2][1] = 0

\* the title of the frame shown after k updates
title_after(k) ==
    IF k = 0 THEN "Initial state" ELSE "State after " \o ToString(k) \o " updates"

\* C19: display(n_updates), n_updates >= 0, returns after exactly n_updates calls
\* of update(); it shows the initial state before any update and then one frame
\* after each update, frame k showing the grid k generations after the start: when
\* it returns, n_updates + 1 frames have been shown and the grid is n_updates
\* generations after its starting state.
C19_Display ==
    /\ [](dpc # "out" =>
            /\ gens <= Len(frames)
            /\ Len(frames) <= gens + 1
            /\ (dpc = "initial") = (frames = <<>>)
            /\ Len(frames) = gens => (dpc = "initial" \/ update_returned)
            /\ \A k \in 1 .. Len(frames) :
                  /\ frames[k].title = title_after(k - 1)
                  /\ frames[k].arr = display_arr(generation(seed, size, k - 1), size)
            /\ (dpc = "done" /\ n_updates >= 0) =>
                  /\ gens = n_updates
                  /\ Len(frames) = n_updates + 1
                  /\ on_cells = generation(seed, size, n_updates))
    /\ (dpc = "initial") ~> (dpc = "done")

\* C19 witness: display(2) has returned on a grid of size 3 whose three frames all
\* differ.
C19_Witness ==
    /\ dpc = "done"
    /\ n_updates = 2
    /\ size = 3
    /\ Len(frames) = 3
    /\ frames[1].arr # frames[2].arr
    /\ frames[2].arr # frames[3].arr
    /\ frames[1].arr # frames[3].arr

====
